---- MODULE Spec2Model ----
(***************************************************************************)
(* Model of the KV-cache offload binding, RocksDBWrapper, of               *)
(* rocksdb_pybinding/src/rocksdb_binding.cpp (second class in the file,    *)
(* lines 175-429): a RocksDB index that maps a key to "<file>|<slot>" and  *)
(* blob files written and read through the Python safetensor_helper.       *)
(*                                                                         *)
(* Strings are sequences of tokens.  A token is one character, except that *)
(* the two literals of line 293, "kv_cache_" and ".safetensors", are one   *)
(* token each; no token but "|" contains the delimiter.                    *)
(***************************************************************************)
EXTENDS Integers, Sequences, FiniteSets, TLC

\* ------------------------------------------------------------------ bounds
\* longest key list handed to batch_put / batch_get
MaxLen == 2
\* number of batch_put calls that get a file id (caps file_counter)
MaxFiles == 2

\* keys and raw single-key payloads are opaque byte strings
Keys == {"a", "b"}
\* raw values stored by put: one without the delimiter, one with the delimiter
\* followed by something that is no number
RawValues == { <<"x">>, <<"x", "|", "y">> }
Stores == {"s1", "s2"}
\* the store the sequential host works on
HostStores == {"s1"}

\* ------------------------------------------------------------ value shapes
\* py::none()
None == <<"None">>
\* the index has no entry for the key (Status::NotFound)
NotFound == <<"NotFound">>
\* std::string::npos
npos == -1

\* the i-th element (0-based) of the kv_caches list of the batch_put call c
\* (the call that drew file id c, or the call of thread c): payloads are opaque
\* and pairwise distinct
KvCache(c, i) == <<"kv", c, i>>

\* what a call hands back to Python
RetBool(b) == [tag |-> "bool", b |-> b, l |-> <<>>, msg |-> ""]
RetList(l) == [tag |-> "list", b |-> FALSE, l |-> l, msg |-> ""]
RetBytes(v) == [tag |-> "bytes", b |-> FALSE, l |-> v, msg |-> ""]
RetNone == [tag |-> "none", b |-> FALSE, l |-> <<>>, msg |-> ""]
Raise(msg) == [tag |-> "raise", b |-> FALSE, l |-> <<>>, msg |-> msg]

\* ------------------------------------------------------------------ strings
Digits == <<"0", "1", "2", "3", "4", "5", "6", "7", "8", "9">>
\* the tokens in the order of the character code of their first character
Alphabet == <<".safetensors">> \o Digits \o <<"kv_cache_", "x", "y", "|">>

Code(c) == CHOOSE i \in 1..Len(Alphabet) : Alphabet[i] = c

IsDigit(c) == \E i \in 1..10 : Digits[i] = c

DigitValue(c) == (CHOOSE i \in 1..10 : Digits[i] = c) - 1

\* std::to_string(int)
RECURSIVE to_string(_)
to_string(n) ==
  IF n < 0 THEN <<"-">> \o to_string(-n)
  ELSE IF n < 10 THEN <<Digits[n + 1]>>
  ELSE to_string(n \div 10) \o <<Digits[(n % 10) + 1]>>

\* std::string::find(c): 0-based position of the first c, or npos
RECURSIVE FindFrom(_, _, _)
FindFrom(str, c, i) ==
  IF i > Len(str) THEN npos
  ELSE IF str[i] = c THEN i - 1
  ELSE FindFrom(str, c, i + 1)

find(str, c) == FindFrom(str, c, 1)

\* std::string::substr(pos, count) and substr(pos)
substr(str, pos, count) == SubSeq(str, pos + 1, pos + count)

substr_from(str, pos) == SubSeq(str, pos + 1, Len(str))

\* std::stoi: the leading run of digits as a number; no digit at the start
\* throws std::invalid_argument (the alphabet has no sign and no white space)
RECURSIVE StoiDigits(_, _, _)
StoiDigits(str, i, acc) ==
  IF i > Len(str) \/ ~IsDigit(str[i]) THEN acc
  ELSE StoiDigits(str, i + 1, 10 * acc + DigitValue(str[i]))

stoi(str) ==
  IF str = <<>> \/ ~IsDigit(str[1]) THEN [ok |-> FALSE, val |-> 0]
  ELSE [ok |-> TRUE, val |-> StoiDigits(str, 1, 0)]

\* operator< of std::string, the order of the std::map of line 341
RECURSIVE StrLess(_, _)
StrLess(a, b) ==
  IF b = <<>> THEN FALSE
  ELSE IF a = <<>> THEN TRUE
  ELSE IF a[1] = b[1] THEN StrLess(Tail(a), Tail(b))
  ELSE Code(a[1]) < Code(b[1])

\* a variant of the file name that leaves the id out
FileName_NoId(file_id) == <<"kv_cache_", ".safetensors">>

\* "kv_cache_" + std::to_string(file_id) + ".safetensors"
FileName(file_id) == <<"kv_cache_">> \o to_string(file_id) \o <<".safetensors">>

\* filename + "|" + std::to_string(i)
ValueStr(filename, i) == filename \o <<"|">> \o to_string(i)

\* the file a descriptor names (the text before the first '|')
DescFile(value_str) == substr(value_str, 0, find(value_str, "|"))

FileIds == 0..(MaxFiles - 1)
FileNames == {FileName(f) : f \in FileIds}

\* key lists of at most MaxLen keys
KeyLists == UNION {[1..n -> Keys] : n \in 0..MaxLen}

\* ------------------------------------------------------- the blob helper
\* a blob file: absent, whatever a failed save left on disk (possibly
\* nothing), or complete
NoFile == [state |-> "none", data |-> <<>>]
PartialFile == [state |-> "partial", data |-> <<>>]
BlobFile(payloads) == [state |-> "complete", data |-> payloads]

\* safetensor_helper.save_kv_caches(filename, kv_caches), when it returns:
\* element i of kv_caches is stored at slot i of the file
save_kv_caches(fs, filename, kv_caches) ==
  [fs EXCEPT ![filename] = BlobFile(kv_caches)]

\* safetensor_helper.load_kv_caches(filename, offset_list): one element per
\* requested offset, in the order requested; raises when the file is missing
\* or incomplete, when an offset is not a slot of it, or when the read fails
load_kv_caches(fs, filename, offsets, reader_fails) ==
  IF \/ reader_fails
     \/ filename \notin DOMAIN fs
     \/ fs[filename].state # "complete"
     \/ \E k \in 1..Len(offsets) :
           offsets[k] < 0 \/ offsets[k] >= Len(fs[filename].data)
  THEN [ok |-> FALSE, list |-> <<>>]
  ELSE [ok |-> TRUE,
        list |-> [k \in 1..Len(offsets) |-> fs[filename].data[offsets[k] + 1]]]

\* ------------------------------------------------------------ the index
\* db->Get: the status and the value of one lookup; io_error is a failure of
\* the index other than NotFound
DbGet(idx, key, io_error) ==
  IF io_error THEN [status |-> "ioerror", value |-> <<>>]
  ELSE IF key \notin DOMAIN idx \/ idx[key] = NotFound
       THEN [status |-> "notfound", value |-> <<>>]
  ELSE [status |-> "ok", value |-> idx[key]]

\* db->MultiGet over the slices: one status and one value per position;
\* io_errors is the set of positions (1-based) whose lookup fails
DbMultiGet(idx, slices, io_errors) ==
  [i \in 1..Len(slices) |-> DbGet(idx, slices[i], i \in io_errors)]

\* a variant of the batch write in which a Put does not replace an entry
RECURSIVE DbWrite_KeepsFirst(_, _)
DbWrite_KeepsFirst(idx, batch) ==
  IF batch = <<>> THEN idx
  ELSE DbWrite_KeepsFirst(IF idx[batch[1].key] = NotFound
                          THEN [idx EXCEPT ![batch[1].key] = batch[1].value]
                          ELSE idx,
                          Tail(batch))

\* db->Write of a WriteBatch: the Puts take effect together, in batch order
RECURSIVE DbWrite(_, _)
DbWrite(idx, batch) ==
  IF batch = <<>> THEN idx
  ELSE DbWrite([idx EXCEPT ![batch[1].key] = batch[1].value], Tail(batch))

\* ------------------------------------------------------------ batch_put
\* file_counter.fetch_add(1) on std::atomic<int>: the value left in the counter
IntMax == 2147483647
\* a variant that loses the increment (a plain load in place of fetch_add)
FetchAdd_Lost(counter) == counter

FetchAdd(counter) == IF counter = IntMax THEN -IntMax - 1 ELSE counter + 1

\* a variant of the loop that numbers the slots from one
WriteBatchOf_SlotFromOne(keys, filename) ==
  [i \in 1..Len(keys) |-> [key |-> keys[i], value |-> ValueStr(filename, i)]]

\* the WriteBatch built by the loop of lines 301-308
WriteBatchOf(keys, filename) ==
  [i \in 1..Len(keys) |-> [key |-> keys[i], value |-> ValueStr(filename, i - 1)]]

\* the kv_caches list of call c, n elements long
KvCaches(c, n) == [i \in 1..n |-> KvCache(c, i - 1)]

\* ------------------------------------------------------------ batch_get
\* key_storage and slices, lines 326-332: key_storage starts with n empty
\* strings (size n, capacity n) and the keys are pushed behind them.  A
\* push_back at size = capacity reallocates and every slice made so far
\* dangles.  Growth doubles the capacity (libstdc++, libc++).
GrowCapacity(cap) == IF cap = 0 THEN 1 ELSE 2 * cap

RECURSIVE PushKeys(_, _, _, _, _)
PushKeys(keys, i, size, cap, slices) ==
  IF i > Len(keys) THEN slices
  ELSE IF size = cap
       THEN PushKeys(keys, i + 1, size + 1, GrowCapacity(cap),
                     Append([j \in 1..Len(slices) |-> "dangling"], keys[i]))
       ELSE PushKeys(keys, i + 1, size + 1, cap, Append(slices, keys[i]))

Slices(keys) == PushKeys(keys, 1, Len(keys), Len(keys), <<>>)

\* file_offsets[filename].push_back(offset)
PushOffset(file_offsets, filename, offset) ==
  IF filename \in DOMAIN file_offsets
  THEN [file_offsets EXCEPT ![filename] = Append(@, offset)]
  ELSE file_offsets @@ (filename :> <<offset>>)

\* the loop of lines 345-359 from position i (1-based) on; acc holds
\* file_offsets (fo), result_indices (ri) and whether std::stoi threw
RECURSIVE Organise(_, _, _)
Organise(got, i, acc) ==
  IF i > Len(got) \/ acc.threw THEN acc
  ELSE IF got[i].status = "ok"
  THEN LET value_str == got[i].value
           pipe_pos == find(value_str, "|")
       IN IF pipe_pos # npos
          THEN LET filename == substr(value_str, 0, pipe_pos)
                   offset == stoi(substr_from(value_str, pipe_pos + 1))
               IN IF offset.ok
                  THEN Organise(got, i + 1,
                         [acc EXCEPT !.fo = PushOffset(@, filename, offset.val),
                                     !.ri = Append(@, i - 1)])
                  ELSE [acc EXCEPT !.threw = TRUE]
          ELSE Organise(got, i + 1, acc)
  ELSE Organise(got, i + 1, [acc EXCEPT !.ri = Append(@, -1)])

\* a variant of the inner loop that takes every found lookup as one of the
\* file at hand
RECURSIVE Scatter_AnyFile(_, _, _, _, _, _, _)
Scatter_AnyFile(results, ri, got, filename, loaded, i, loaded_idx) ==
  IF i > Len(ri) THEN [threw |-> FALSE, results |-> results]
  ELSE IF ri[i] >= 0
  THEN IF loaded_idx >= Len(loaded)
       THEN [threw |-> TRUE, results |-> results]
       ELSE Scatter_AnyFile([results EXCEPT ![ri[i] + 1] = loaded[loaded_idx + 1]],
                            ri, got, filename, loaded, i + 1, loaded_idx + 1)
  ELSE Scatter_AnyFile(results, ri, got, filename, loaded, i + 1, loaded_idx)

\* the inner loop of lines 376-389 for one file, from entry i of
\* result_indices on; loaded_caches[loaded_idx] past the end raises
RECURSIVE Scatter(_, _, _, _, _, _, _)
Scatter(results, ri, got, filename, loaded, i, loaded_idx) ==
  IF i > Len(ri) THEN [threw |-> FALSE, results |-> results]
  ELSE IF ri[i] >= 0
  THEN LET value_str == got[ri[i] + 1].value
           pipe_pos == find(value_str, "|")
       IN IF pipe_pos # npos /\ substr(value_str, 0, pipe_pos) = filename
          THEN IF loaded_idx >= Len(loaded)
               THEN [threw |-> TRUE, results |-> results]
               ELSE Scatter([results EXCEPT ![ri[i] + 1] = loaded[loaded_idx + 1]],
                            ri, got, filename, loaded, i + 1, loaded_idx + 1)
          ELSE Scatter(results, ri, got, filename, loaded, i + 1, loaded_idx)
  ELSE Scatter(results, ri, got, filename, loaded, i + 1, loaded_idx)

\* the files of file_offsets in the iteration order of the std::map
RECURSIVE MapOrder(_)
MapOrder(names) ==
  IF names = {} THEN <<>>
  ELSE LET first == CHOOSE a \in names : \A b \in names \ {a} : StrLess(a, b)
       IN <<first>> \o MapOrder(names \ {first})

\* a variant of the per-file loop that calls the reader once per offset of
\* the file
RECURSIVE LoadFiles_CallPerOffset(_, _, _, _, _, _, _)
LoadFiles_CallPerOffset(results, order, fo, ri, got, fs, reader_fails) ==
  IF order = <<>> THEN [threw |-> FALSE, results |-> results, calls |-> <<>>]
  ELSE LET filename == Head(order)
           loaded == load_kv_caches(fs, filename, fo[filename], reader_fails)
           called == [k \in 1..Len(fo[filename]) |-> filename]
       IN IF ~loaded.ok
          THEN [threw |-> TRUE, results |-> results, calls |-> <<filename>>]
          ELSE LET placed == Scatter(results, ri, got, filename, loaded.list, 1, 0)
               IN IF placed.threw
                  THEN [threw |-> TRUE, results |-> placed.results,
                        calls |-> called]
                  ELSE LET rest == LoadFiles_CallPerOffset(placed.results,
                                     Tail(order), fo, ri, got, fs, reader_fails)
                       IN [rest EXCEPT !.calls = called \o @]

\* the loop of lines 367-390 over the files still to read; calls lists the
\* file names handed to load_kv_caches (line 373), in the order of the calls
RECURSIVE LoadFiles(_, _, _, _, _, _, _)
LoadFiles(results, order, fo, ri, got, fs, reader_fails) ==
  IF order = <<>> THEN [threw |-> FALSE, results |-> results, calls |-> <<>>]
  ELSE LET filename == Head(order)
           loaded == load_kv_caches(fs, filename, fo[filename], reader_fails)
       IN IF ~loaded.ok
          THEN [threw |-> TRUE, results |-> results, calls |-> <<filename>>]
          ELSE LET placed == Scatter(results, ri, got, filename, loaded.list, 1, 0)
               IN IF placed.threw
                  THEN [threw |-> TRUE, results |-> placed.results,
                        calls |-> <<filename>>]
                  ELSE LET rest == LoadFiles(placed.results, Tail(order), fo, ri,
                                             got, fs, reader_fails)
                       IN [rest EXCEPT !.calls = <<filename>> \o @]

\* lines 345-359 on the answer of MultiGet
Organised(got) == Organise(got, 1, [threw |-> FALSE, fo |-> <<>>, ri |-> <<>>])

\* lines 362-397, from what lines 345-359 organised: the list handed back
BatchGetFrom(org, got, fs, reader_fails) ==
  IF org.threw THEN RetList(<<>>)
  ELSE LET results == [i \in 1..Len(got) |-> None]
           done == LoadFiles(results, MapOrder(DOMAIN org.fo), org.fo, org.ri,
                             got, fs, reader_fails)
       IN IF done.threw THEN RetList(<<>>) ELSE RetList(done.results)

\* the calls of load_kv_caches (line 373) a batch_get makes, as file names
BatchGetCalls(got, fs, reader_fails) ==
  LET org == Organised(got)
  IN IF org.threw THEN <<>>
     ELSE LoadFiles([i \in 1..Len(got) |-> None], MapOrder(DOMAIN org.fo),
                    org.fo, org.ri, got, fs, reader_fails).calls

\* lines 341-397 on the answer of MultiGet
BatchGetResult(got, fs, reader_fails) ==
  BatchGetFrom(Organised(got), got, fs, reader_fails)

\* --------------------------------------------------- results of the calls
NotOpened == Raise("Database not opened")

\* get, lines 223-226, on the answer of db->Get
GetResult(got) == IF got.status # "ok" THEN RetNone ELSE RetBytes(got.value)

\* a variant of probe that takes every status but ok as absence, as get does
ProbeResult_AsGet(got) ==
  IF got.status # "ok" THEN RetBool(FALSE) ELSE RetBool(TRUE)

\* probe, lines 236-242, on the answer of db->Get
ProbeResult(got) ==
  IF got.status = "notfound" THEN RetBool(FALSE)
  ELSE IF got.status = "ok" THEN RetBool(TRUE)
  ELSE Raise("Error probing key")

\* a variant of batch_put that writes the index before the blob file
BatchPutEffect_IndexFirst(idx, fs, file_id, keys, kv_caches, blob_ok, write_ok) ==
  LET filename == FileName(file_id)
  IN IF ~write_ok
     THEN [idx |-> idx, fs |-> fs, ret |-> RetBool(FALSE)]
     ELSE IF ~blob_ok
     THEN [idx |-> DbWrite(idx, WriteBatchOf(keys, filename)),
           fs |-> [fs EXCEPT ![filename] = PartialFile],
           ret |-> RetBool(FALSE)]
     ELSE [idx |-> DbWrite(idx, WriteBatchOf(keys, filename)),
           fs |-> save_kv_caches(fs, filename, kv_caches),
           ret |-> RetBool(TRUE)]

\* batch_put, lines 289-316, once the length check has passed: the index, the
\* files and the result, from the file id drawn.  blob_ok: save_kv_caches
\* returns (otherwise it raises); write_ok: the
\* status of db->Write
BatchPutEffect(idx, fs, file_id, keys, kv_caches, blob_ok, write_ok) ==
  LET filename == FileName(file_id)
  IN IF ~blob_ok
     THEN [idx |-> idx, fs |-> [fs EXCEPT ![filename] = PartialFile],
           ret |-> RetBool(FALSE)]
     ELSE IF ~write_ok
     THEN [idx |-> idx, fs |-> save_kv_caches(fs, filename, kv_caches),
           ret |-> RetBool(FALSE)]
     ELSE [idx |-> DbWrite(idx, WriteBatchOf(keys, filename)),
           fs |-> save_kv_caches(fs, filename, kv_caches),
           ret |-> RetBool(TRUE)]

\* ------------------------------------------------------------------- state
VARIABLES
  db,            \* per store: "null" or "open" (the rocksdb::DB* of line 177)
  index,         \* per store: the content of the RocksDB, key -> value
  files,         \* the blob files on disk, by file name
  file_counter,  \* the static std::atomic<int> of lines 179 and 429
  last,          \* the call that has just returned to the host, with its result
  written,       \* history: per store and key, what the last successful write left
  drawn,         \* history: the file ids handed out, in the order of the increments
  thr            \* per thread of the concurrent host: where its call stands

vars == <<db, index, files, file_counter, last, written, drawn, thr>>

Absent == <<"absent">>
RawWrite == <<"raw">>

\* the record of a call; fields a call does not use keep their neutral value
NoCall ==
  [op |-> "none", store |-> "-", key |-> "-", keys |-> <<>>, nvals |-> -1,
   value |-> <<>>, got |-> <<>>, blob |-> "-", wstatus |-> "-", file |-> -1,
   meta |-> <<>>, ret |-> RetNone]

Writers == {"w1", "w2"}
Readers == {"r1"}
Threads == Writers \cup Readers

\* a thread that has not made its call yet
Idle ==
  [pc |-> "idle", op |-> "none", store |-> "-", keys |-> <<>>, file |-> -1,
   got |-> <<>>, ret |-> RetNone]

\* fresh stores in a fresh directory, no call made yet
Fresh ==
  /\ drawn = <<>>
  /\ thr = [t \in Threads |-> Idle]
  /\ index = [s \in Stores |-> [k \in Keys |-> NotFound]]
  /\ files = [fn \in FileNames |-> NoFile]
  /\ file_counter = 0
  /\ last = NoCall
  /\ written = [s \in Stores |-> [k \in Keys |-> Absent]]

\* after construction: no store is opened
Init ==
  /\ Fresh
  /\ db = [s \in Stores |-> "null"]

\* the last position (1-based) of key k in keys
LastPos(keys, k) == CHOOSE i \in 1..Len(keys) :
                      keys[i] = k /\ \A j \in (i + 1)..Len(keys) : keys[j] # k

InList(keys, k) == \E i \in 1..Len(keys) : keys[i] = k

\* ----------------------------------------------------------------- actions
\* open, lines 201-208
open(s, ok) ==
  /\ db[s] = "null"
  /\ db' = [db EXCEPT ![s] = IF ok THEN "open" ELSE "null"]
  /\ last' = [NoCall EXCEPT !.op = "open", !.store = s, !.ret = RetBool(ok)]
  /\ UNCHANGED <<index, files, file_counter, written, drawn, thr>>

\* put, lines 210-216
put(s, k, v, ok) ==
  /\ IF db[s] = "null"
     THEN /\ last' = [NoCall EXCEPT !.op = "put", !.store = s, !.key = k,
                                    !.value = v, !.ret = NotOpened]
          /\ UNCHANGED <<index, written>>
     ELSE /\ index' = IF ok THEN [index EXCEPT ![s][k] = v] ELSE index
          /\ written' = IF ok THEN [written EXCEPT ![s][k] = RawWrite] ELSE written
          /\ last' = [NoCall EXCEPT !.op = "put", !.store = s, !.key = k,
                                    !.value = v,
                                    !.wstatus = IF ok THEN "ok" ELSE "fail",
                                    !.ret = RetBool(ok)]
  /\ UNCHANGED <<db, files, file_counter, drawn, thr>>

\* a variant of get without the check of db: a store that is not opened
\* answers as an empty one
get_Unchecked(s, k, io_error) ==
  /\ LET got == DbGet(index[s], k, io_error)
     IN last' = [NoCall EXCEPT !.op = "get", !.store = s, !.key = k,
                               !.got = <<got>>, !.ret = GetResult(got)]
  /\ UNCHANGED <<db, index, files, file_counter, written, drawn, thr>>

\* get, lines 218-227
get(s, k, io_error) ==
  /\ IF db[s] = "null"
     THEN last' = [NoCall EXCEPT !.op = "get", !.store = s, !.key = k,
                                 !.ret = NotOpened]
     ELSE LET got == DbGet(index[s], k, io_error)
          IN last' = [NoCall EXCEPT !.op = "get", !.store = s, !.key = k,
                                    !.got = <<got>>, !.ret = GetResult(got)]
  /\ UNCHANGED <<db, index, files, file_counter, written, drawn, thr>>

\* probe, lines 229-243
probe(s, k, io_error) ==
  /\ IF db[s] = "null"
     THEN last' = [NoCall EXCEPT !.op = "probe", !.store = s, !.key = k,
                                 !.ret = NotOpened]
     ELSE LET got == DbGet(index[s], k, io_error)
          IN last' = [NoCall EXCEPT !.op = "probe", !.store = s, !.key = k,
                                    !.got = <<got>>, !.ret = ProbeResult(got)]
  /\ UNCHANGED <<db, index, files, file_counter, written, drawn, thr>>

\* a variant of delete_key that reports the status without calling Delete
delete_key_NoDelete(s, k, ok) ==
  /\ IF db[s] = "null"
     THEN /\ last' = [NoCall EXCEPT !.op = "delete", !.store = s, !.key = k,
                                    !.ret = NotOpened]
          /\ UNCHANGED <<index, written>>
     ELSE /\ index' = index
          /\ written' = IF ok THEN [written EXCEPT ![s][k] = Absent] ELSE written
          /\ last' = [NoCall EXCEPT !.op = "delete", !.store = s, !.key = k,
                                    !.wstatus = IF ok THEN "ok" ELSE "fail",
                                    !.ret = RetBool(ok)]
  /\ UNCHANGED <<db, files, file_counter, drawn, thr>>

\* a variant of delete_key that removes the entries of all keys stored in the
\* blob file of the key
delete_key_DropsBatch(s, k, ok) ==
  /\ IF db[s] = "null"
     THEN /\ last' = [NoCall EXCEPT !.op = "delete", !.store = s, !.key = k,
                                    !.ret = NotOpened]
          /\ UNCHANGED <<index, written>>
     ELSE /\ index' = IF ok
                      THEN [index EXCEPT ![s] =
                              [k2 \in Keys |->
                                 IF k2 = k \/ (@[k2] # NotFound /\ index[s][k] # NotFound
                                               /\ DescFile(@[k2]) = DescFile(index[s][k]))
                                 THEN NotFound ELSE @[k2]]]
                      ELSE index
          /\ written' = IF ok THEN [written EXCEPT ![s][k] = Absent] ELSE written
          /\ last' = [NoCall EXCEPT !.op = "delete", !.store = s, !.key = k,
                                    !.wstatus = IF ok THEN "ok" ELSE "fail",
                                    !.ret = RetBool(ok)]
  /\ UNCHANGED <<db, files, file_counter, drawn, thr>>

\* a variant of delete_key that also removes the blob file the entry names
delete_key_ReclaimsFile(s, k, ok) ==
  /\ IF db[s] = "null"
     THEN /\ last' = [NoCall EXCEPT !.op = "delete", !.store = s, !.key = k,
                                    !.ret = NotOpened]
          /\ UNCHANGED <<index, written, files>>
     ELSE /\ index' = IF ok THEN [index EXCEPT ![s][k] = NotFound] ELSE index
          /\ files' = IF ok /\ index[s][k] # NotFound
                         /\ DescFile(index[s][k]) \in DOMAIN files
                      THEN [files EXCEPT ![DescFile(index[s][k])] = NoFile]
                      ELSE files
          /\ written' = IF ok THEN [written EXCEPT ![s][k] = Absent] ELSE written
          /\ last' = [NoCall EXCEPT !.op = "delete", !.store = s, !.key = k,
                                    !.wstatus = IF ok THEN "ok" ELSE "fail",
                                    !.ret = RetBool(ok)]
  /\ UNCHANGED <<db, file_counter, drawn, thr>>

\* delete_key, lines 418-423
delete_key(s, k, ok) ==
  /\ IF db[s] = "null"
     THEN /\ last' = [NoCall EXCEPT !.op = "delete", !.store = s, !.key = k,
                                    !.ret = NotOpened]
          /\ UNCHANGED <<index, written>>
     ELSE /\ index' = IF ok THEN [index EXCEPT ![s][k] = NotFound] ELSE index
          /\ written' = IF ok THEN [written EXCEPT ![s][k] = Absent] ELSE written
          /\ last' = [NoCall EXCEPT !.op = "delete", !.store = s, !.key = k,
                                    !.wstatus = IF ok THEN "ok" ELSE "fail",
                                    !.ret = RetBool(ok)]
  /\ UNCHANGED <<db, files, file_counter, drawn, thr>>

\* a variant of batch_put that draws the file id before it compares the lengths
batch_put_IdFirst(s, keys, n, blob_ok, write_ok) ==
  /\ IF db[s] = "null"
     THEN /\ last' = [NoCall EXCEPT !.op = "batch_put", !.store = s,
                                    !.keys = keys, !.nvals = n, !.ret = NotOpened]
          /\ UNCHANGED <<index, files, file_counter, written, drawn>>
     ELSE /\ file_counter < MaxFiles
          /\ file_counter' = FetchAdd(file_counter)
          /\ drawn' = Append(drawn, file_counter)
          /\ IF Len(keys) # n
             THEN /\ last' = [NoCall EXCEPT !.op = "batch_put", !.store = s,
                                !.keys = keys, !.nvals = n,
                                !.ret = Raise("Keys and kv_caches must have the same length")]
                  /\ UNCHANGED <<index, files, written>>
             ELSE LET eff == BatchPutEffect(index[s], files, file_counter, keys,
                                            KvCaches(file_counter, n), blob_ok, write_ok)
                  IN /\ index' = [index EXCEPT ![s] = eff.idx]
                     /\ files' = eff.fs
                     /\ written' =
                          IF eff.ret = RetBool(TRUE)
                          THEN [written EXCEPT ![s] =
                                 [k \in Keys |->
                                    IF InList(keys, k)
                                    THEN KvCache(file_counter, LastPos(keys, k) - 1)
                                    ELSE @[k]]]
                          ELSE written
                     /\ last' = [NoCall EXCEPT !.op = "batch_put", !.store = s,
                                   !.keys = keys, !.nvals = n, !.file = file_counter,
                                   !.blob = IF blob_ok THEN "ok" ELSE "fail",
                                   !.wstatus = IF ~blob_ok THEN "-"
                                               ELSE IF write_ok THEN "ok" ELSE "fail",
                                   !.ret = eff.ret]
  /\ UNCHANGED <<db, thr>>

\* batch_put, lines 282-317, with n kv_caches
batch_put(s, keys, n, blob_ok, write_ok) ==
  /\ IF db[s] = "null"
     THEN /\ last' = [NoCall EXCEPT !.op = "batch_put", !.store = s,
                                    !.keys = keys, !.nvals = n, !.ret = NotOpened]
          /\ UNCHANGED <<index, files, file_counter, written, drawn>>
     ELSE IF Len(keys) # n
     THEN /\ last' = [NoCall EXCEPT !.op = "batch_put", !.store = s,
                        !.keys = keys, !.nvals = n,
                        !.ret = Raise("Keys and kv_caches must have the same length")]
          /\ UNCHANGED <<index, files, file_counter, written, drawn>>
     ELSE /\ file_counter < MaxFiles
          /\ LET file_id == file_counter
                 eff == BatchPutEffect(index[s], files, file_id, keys,
                                       KvCaches(file_id, n), blob_ok, write_ok)
             IN /\ file_counter' = FetchAdd(file_counter)
                /\ drawn' = Append(drawn, file_id)
                /\ index' = [index EXCEPT ![s] = eff.idx]
                /\ files' = eff.fs
                /\ written' =
                     IF eff.ret = RetBool(TRUE)
                     THEN [written EXCEPT ![s] =
                            [k \in Keys |->
                               IF InList(keys, k)
                               THEN KvCache(file_id, LastPos(keys, k) - 1)
                               ELSE @[k]]]
                     ELSE written
                /\ last' = [NoCall EXCEPT !.op = "batch_put", !.store = s,
                              !.keys = keys, !.nvals = n, !.file = file_id,
                              !.blob = IF blob_ok THEN "ok" ELSE "fail",
                              !.wstatus = IF ~blob_ok THEN "-"
                                          ELSE IF write_ok THEN "ok" ELSE "fail",
                              !.ret = eff.ret]
  /\ UNCHANGED <<db, thr>>

\* batch_get, lines 320-398
batch_get(s, keys, io_errors, reader_fails) ==
  /\ IF db[s] = "null"
     THEN /\ io_errors = {} /\ ~reader_fails
          /\ last' = [NoCall EXCEPT !.op = "batch_get", !.store = s, !.keys = keys,
                                    !.ret = NotOpened]
     ELSE LET got == DbMultiGet(index[s], Slices(keys), io_errors)
              org == Organised(got)
              reads == ~org.threw /\ DOMAIN org.fo # {}
          IN /\ reader_fails => reads
             /\ last' = [NoCall EXCEPT !.op = "batch_get", !.store = s,
                           !.keys = keys, !.got = got,
                           !.blob = IF ~reads THEN "-"
                                    ELSE IF reader_fails THEN "fail" ELSE "ok",
                           !.ret = BatchGetFrom(org, got, files, reader_fails)]
  /\ UNCHANGED <<db, index, files, file_counter, written, drawn, thr>>

\* the host takes the result and goes on to its next call
resume ==
  /\ last # NoCall
  /\ last' = NoCall
  /\ UNCHANGED <<db, index, files, file_counter, written, drawn, thr>>

\* the host makes one call at a time
Ready == last = NoCall

\* a call meets at most one failure of a collaborator: the positions of a
\* MultiGet whose lookup fails are none, or one of them
FailingLookups == {{}} \cup {{i} : i \in 1..MaxLen}

Next ==
  \/ /\ Ready
     /\ \E s \in HostStores, ok \in BOOLEAN : open(s, ok)
  \/ /\ Ready
     /\ \E s \in HostStores, k \in Keys, v \in RawValues, ok \in BOOLEAN : put(s, k, v, ok)
  \/ /\ Ready
     /\ \E s \in HostStores, k \in Keys, io_error \in BOOLEAN : get(s, k, io_error)
  \/ /\ Ready
     /\ \E s \in HostStores, k \in Keys, io_error \in BOOLEAN : probe(s, k, io_error)
  \/ /\ Ready
     /\ \E s \in HostStores, k \in Keys, ok \in BOOLEAN : delete_key(s, k, ok)
  \/ /\ Ready
     /\ \E s \in HostStores, keys \in KeyLists, n \in 0..MaxLen,
           blob_ok \in BOOLEAN, write_ok \in BOOLEAN :
           /\ n \in {Len(keys), Len(keys) + 1, Len(keys) - 1}
           /\ (~blob_ok \/ n # Len(keys)) => write_ok
           /\ n # Len(keys) => blob_ok
           /\ batch_put(s, keys, n, blob_ok, write_ok)
  \/ /\ Ready
     /\ \E s \in HostStores, keys \in KeyLists, io_errors \in FailingLookups,
           reader_fails \in BOOLEAN :
           /\ io_errors \subseteq 1..Len(keys)
           /\ reader_fails => io_errors = {}
           /\ batch_get(s, keys, io_errors, reader_fails)
  \/ resume

Spec == Init /\ [][Next]_vars

\* ------------------------------------------------------- concurrent callers
\* Threads of the host call into opened stores at the same time, each once: the
\* writers call batch_put, the reader calls batch_get or probe.  A call is cut
\* where it hands control to a collaborator: the counter, the blob helper, the
\* index.
InitConc ==
  /\ Fresh
  /\ db = [s \in Stores |-> "open"]

SeqVars == <<db, last>>

\* batch_put up to line 293: the checks and the file id
bp_id(t, s, keys) ==
  /\ thr[t].pc = "idle"
  /\ db[s] # "null"
  /\ file_counter < MaxFiles
  /\ file_counter' = FetchAdd(file_counter)
  /\ drawn' = Append(drawn, file_counter)
  /\ thr' = [thr EXCEPT ![t] = [Idle EXCEPT !.pc = "save", !.op = "batch_put",
                                            !.store = s, !.keys = keys,
                                            !.file = file_counter]]
  /\ UNCHANGED <<index, files, written, SeqVars>>

\* a variant of the blob write whose failure is swallowed: batch_put goes on
\* to the index write
bp_save_SwallowsFailure(t, blob_ok) ==
  /\ thr[t].pc = "save"
  /\ LET filename == FileName(thr[t].file)
     IN files' = IF blob_ok
                 THEN save_kv_caches(files, filename, KvCaches(t, Len(thr[t].keys)))
                 ELSE [files EXCEPT ![filename] = PartialFile]
  /\ thr' = [thr EXCEPT ![t].pc = "write"]
  /\ UNCHANGED <<index, file_counter, written, drawn, SeqVars>>

\* batch_put, lines 296-297: the blob helper writes the file, or raises
bp_save(t, blob_ok) ==
  /\ thr[t].pc = "save"
  /\ LET filename == FileName(thr[t].file)
     IN IF blob_ok
        THEN /\ files' = save_kv_caches(files, filename,
                                        KvCaches(t, Len(thr[t].keys)))
             /\ thr' = [thr EXCEPT ![t].pc = "write"]
        ELSE /\ files' = [files EXCEPT ![filename] = PartialFile]
             /\ thr' = [thr EXCEPT ![t].pc = "done", ![t].ret = RetBool(FALSE)]
  /\ UNCHANGED <<index, file_counter, written, drawn, SeqVars>>

\* a variant of the index write that puts the keys one by one and stops at
\* the failure, the first key already written
bp_write_KeyByKey(t, write_ok) ==
  /\ thr[t].pc = "write"
  /\ LET s == thr[t].store
         keys == thr[t].keys
         batch == WriteBatchOf(keys, FileName(thr[t].file))
     IN /\ index' = [index EXCEPT ![s] =
                       DbWrite(@, IF write_ok \/ keys = <<>> THEN batch
                                  ELSE <<batch[1]>>)]
        /\ written' = IF write_ok
                      THEN [written EXCEPT ![s] =
                              [k \in Keys |->
                                 IF InList(keys, k)
                                 THEN KvCache(t, LastPos(keys, k) - 1)
                                 ELSE @[k]]]
                      ELSE written
  /\ thr' = [thr EXCEPT ![t].pc = "done", ![t].ret = RetBool(write_ok)]
  /\ UNCHANGED <<files, file_counter, drawn, SeqVars>>

\* batch_put, lines 300-311: the WriteBatch and db->Write
bp_write(t, write_ok) ==
  /\ thr[t].pc = "write"
  /\ LET s == thr[t].store
         keys == thr[t].keys
     IN /\ index' = IF write_ok
                    THEN [index EXCEPT ![s] =
                            DbWrite(@, WriteBatchOf(keys, FileName(thr[t].file)))]
                    ELSE index
        /\ written' = IF write_ok
                      THEN [written EXCEPT ![s] =
                              [k \in Keys |->
                                 IF InList(keys, k)
                                 THEN KvCache(t, LastPos(keys, k) - 1)
                                 ELSE @[k]]]
                      ELSE written
  /\ thr' = [thr EXCEPT ![t].pc = "done", ![t].ret = RetBool(write_ok)]
  /\ UNCHANGED <<files, file_counter, drawn, SeqVars>>

\* batch_get up to line 338: db->MultiGet
bg_multiget(t, s, keys) ==
  /\ thr[t].pc = "idle"
  /\ db[s] # "null"
  /\ thr' = [thr EXCEPT ![t] = [Idle EXCEPT !.pc = "load", !.op = "batch_get",
                                  !.store = s, !.keys = keys,
                                  !.got = DbMultiGet(index[s], Slices(keys), {})]]
  /\ UNCHANGED <<index, files, file_counter, written, drawn, SeqVars>>

\* batch_get, lines 341-397: the reads of the blob files and the result
bg_load(t) ==
  /\ thr[t].pc = "load"
  /\ thr' = [thr EXCEPT ![t].pc = "done",
                        ![t].ret = BatchGetResult(thr[t].got, files, FALSE)]
  /\ UNCHANGED <<index, files, file_counter, written, drawn, SeqVars>>

\* probe, lines 229-243
pr_probe(t, s, k) ==
  /\ thr[t].pc = "idle"
  /\ db[s] # "null"
  /\ LET got == DbGet(index[s], k, FALSE)
     IN thr' = [thr EXCEPT ![t] = [Idle EXCEPT !.pc = "done", !.op = "probe",
                                     !.store = s, !.keys = <<k>>,
                                     !.got = <<got>>, !.ret = ProbeResult(got)]]
  /\ UNCHANGED <<index, files, file_counter, written, drawn, SeqVars>>

\* w1 and r1 work on store s1, w2 on either store
StoresOf(t) == IF t = "w2" THEN Stores ELSE {"s1"}

\* the key lists of the reading thread: every key at most once (the lookups of
\* one MultiGet answer from one state of the index, so a repeated key reads
\* what its first occurrence reads)
ReaderKeyLists ==
  {keys \in KeyLists : \A i, j \in 1..Len(keys) : keys[i] = keys[j] => i = j}

NextConc ==
  \/ \E t \in Writers, s \in Stores, keys \in KeyLists :
        s \in StoresOf(t) /\ bp_id(t, s, keys)
  \/ \E t \in Writers, blob_ok \in BOOLEAN : bp_save(t, blob_ok)
  \/ \E t \in Writers, write_ok \in BOOLEAN : bp_write(t, write_ok)
  \/ \E t \in Readers, s \in Stores, keys \in ReaderKeyLists :
        s \in StoresOf(t) /\ bg_multiget(t, s, keys)
  \/ \E t \in Readers : bg_load(t)
  \/ \E t \in Readers, s \in Stores, k \in Keys :
        s \in StoresOf(t) /\ pr_probe(t, s, k)

SpecConc == InitConc /\ [][NextConc]_vars

\* ------------------------------------------- a blob writer that places freely
\* The blob writer reports, per input index, the slot it stored the payload
\* at; here it may place the payloads of a batch in any order.  The host makes
\* failure-free calls of batch_put and batch_get on opened stores.

\* the slot reports a writer may give for n payloads: slot per input index
SlotMaps(n) ==
  {m \in [1..n -> 0..(n - 1)] : \A i, j \in 1..n : m[i] = m[j] => i = j}

\* safetensor_helper.save_kv_caches(filename, kv_caches) of a writer that
\* stores element i of kv_caches at slot slots[i] and reports slots
save_kv_caches_reporting(fs, filename, kv_caches, slots) ==
  [fs |-> [fs EXCEPT ![filename] =
             BlobFile([j \in 1..Len(kv_caches) |->
                         kv_caches[CHOOSE i \in 1..Len(slots) : slots[i] = j - 1]])],
   metadata |-> slots]

\* batch_put, lines 289-311, on an opened store with as many kv_caches as keys
\* and no failure: metadata is received (line 296) and not read again
batch_put_reporting(s, keys, slots) ==
  /\ db[s] = "open"
  /\ file_counter < MaxFiles
  /\ LET file_id == file_counter
         filename == FileName(file_id)
         saved == save_kv_caches_reporting(files, filename,
                                           KvCaches(file_id, Len(keys)), slots)
     IN /\ file_counter' = FetchAdd(file_counter)
        /\ drawn' = Append(drawn, file_id)
        /\ files' = saved.fs
        /\ index' = [index EXCEPT ![s] = DbWrite(@, WriteBatchOf(keys, filename))]
        /\ written' = [written EXCEPT ![s] =
                         [k \in Keys |->
                            IF InList(keys, k)
                            THEN KvCache(file_id, LastPos(keys, k) - 1)
                            ELSE @[k]]]
        /\ last' = [NoCall EXCEPT !.op = "batch_put", !.store = s, !.keys = keys,
                      !.nvals = Len(keys), !.file = file_id, !.blob = "ok",
                      !.wstatus = "ok", !.meta = saved.metadata,
                      !.ret = RetBool(TRUE)]
  /\ UNCHANGED <<db, thr>>

NextSlots ==
  \/ /\ Ready
     /\ \E s \in HostStores, keys \in KeyLists :
          \E slots \in SlotMaps(Len(keys)) : batch_put_reporting(s, keys, slots)
  \/ /\ Ready
     /\ \E s \in HostStores, keys \in KeyLists : batch_get(s, keys, {}, FALSE)
  \/ resume

SpecSlots == InitConc /\ [][NextSlots]_vars


\* ------------------------------------------------------------------ claims
\* what batch_get(keys) on store s hands back in the current state when
\* neither the index nor the blob reader fails
ReadBackIn(idx, fs, keys) ==
  BatchGetResult(DbMultiGet(idx, Slices(keys), {}), fs, FALSE).l

ReadBack(s, keys) == ReadBackIn(index[s], files, keys)

IoError(call) == \E i \in 1..Len(call.got) : call.got[i].status = "ioerror"

Returned(op) == last.op = op /\ last.ret.tag # "raise"

\* C1 (as stated): every batch_get that returns hands back exactly len(keys)
\* elements, whatever the outcome (absent keys, unparsable values, a blob-reader
\* failure).
C1_LengthAlwaysKept ==
  Returned("batch_get") => Len(last.ret.l) = Len(last.keys)

\* C2 (as stated): right after a successful batch_put(keys, payloads), reading
\* the same keys back gives at every position i the payload submitted at
\* position i, also when keys repeat.
C2_RoundTripByPosition ==
  (last.op = "batch_put" /\ last.ret = RetBool(TRUE)) =>
     ReadBack(last.store, last.keys) = KvCaches(last.file, Len(last.keys))

\* C2 (amended): right after a successful batch_put(keys, payloads), reading
\* the same keys back gives at every position i the payload submitted at the
\* last position of keys[i] in the batch; for pairwise distinct keys that is
\* the payload submitted at position i.
C2_RoundTripLastOccurrence ==
  (last.op = "batch_put" /\ last.ret = RetBool(TRUE)) =>
     ReadBack(last.store, last.keys) =
       [i \in 1..Len(last.keys) |->
          KvCache(last.file, LastPos(last.keys, last.keys[i]) - 1)]

C2_Witness ==
  /\ last.op = "batch_put" /\ last.ret = RetBool(TRUE)
  /\ Len(last.keys) = 2 /\ last.keys[1] = last.keys[2]
  /\ ReadBack(last.store, last.keys) = <<KvCache(last.file, 1), KvCache(last.file, 1)>>

\* C3: a batch_get that meets no index or reader failure, over keys last
\* written by batch_put or absent, returns at each position the payload most
\* recently stored for the key at that position, and None where the key is
\* absent: across files, for interleaved, absent and repeated keys.
C3_OrderAcrossFiles ==
  (/\ Returned("batch_get")
   /\ ~IoError(last)
   /\ last.blob # "fail"
   /\ \A i \in 1..Len(last.keys) : written[last.store][last.keys[i]] # RawWrite)
  => last.ret = RetList([i \in 1..Len(last.keys) |->
                           IF written[last.store][last.keys[i]] = Absent
                           THEN None
                           ELSE written[last.store][last.keys[i]]])

\* two keys of two different files, asked for in the order opposite to the
\* order of the files
C3_Witness ==
  /\ Returned("batch_get") /\ ~IoError(last) /\ last.blob = "ok"
  /\ Len(last.keys) = 2 /\ Len(last.ret.l) = 2
  /\ last.ret.l[1] # None /\ last.ret.l[2] # None
  /\ last.ret.l[1][2] > last.ret.l[2][2]

\* C4: a batch_put whose blob write fails returns false and leaves the index as
\* it was; a batch_get right after it, over any keys of the batch that had no
\* entry before the call, gives None at every position.
C4_BlobFailureLeavesIndex ==
  [][(last'.op = "batch_put" /\ last'.blob = "fail") =>
       /\ last'.ret = RetBool(FALSE)
       /\ index' = index
       /\ \A ks \in KeyLists :
            (\A i \in 1..Len(ks) : /\ InList(last'.keys, ks[i])
                                   /\ index[last'.store][ks[i]] = NotFound)
            => ReadBackIn(index'[last'.store], files', ks)
                 = [i \in 1..Len(ks) |-> None]]_vars

C4_Witness ==
  /\ last.op = "batch_put" /\ last.blob = "fail"
  /\ Len(last.keys) = 2 /\ last.keys[1] # last.keys[2]
  /\ index[last.store][last.keys[1]] = NotFound
  /\ index[last.store][last.keys[2]] # NotFound

\* the descriptor batch_put of writer t stores for key k of its batch
OwnValue(t, k) ==
  ValueStr(FileName(thr[t].file), LastPos(thr[t].keys, k) - 1)

\* C5: the step of batch_put that writes the index is all-or-nothing: either it
\* reports success and every key of the batch maps to a descriptor in the
\* batch's file while no other key changes, or it reports failure and the
\* index is as before; and whatever a concurrent batch_get or probe has read
\* for a key is not-found or the whole descriptor of a batch_put that has
\* written the index.
C5_IndexWriteAllOrNothing ==
  [][/\ \A t \in Writers :
          (thr[t].pc = "write" /\ thr'[t].pc = "done") =>
             LET s == thr[t].store
                 keys == thr[t].keys
             IN \/ /\ thr'[t].ret = RetBool(TRUE)
                   /\ \A k \in Keys :
                        index'[s][k] = IF InList(keys, k) THEN OwnValue(t, k)
                                       ELSE index[s][k]
                   /\ \A o \in Stores \ {s} : index'[o] = index[o]
                \/ /\ thr'[t].ret = RetBool(FALSE)
                   /\ index' = index
     /\ \A r \in Readers : \A i \in 1..Len(thr'[r].got) :
          \/ thr'[r].got[i].status = "notfound"
          \/ \E w \in Writers :
               /\ thr'[w].pc = "done" /\ thr'[w].ret = RetBool(TRUE)
               /\ thr'[w].store = thr'[r].store
               /\ InList(thr'[w].keys, thr'[r].keys[i])
               /\ thr'[r].got[i].value = OwnValue(w, thr'[r].keys[i])]_vars

\* a reader that looked up two keys while a two-key batch_put was between its
\* blob write and its index write, and a second batch_put had written one of
\* the keys before
C5_Witness ==
  \E r \in Readers, w \in Writers :
    /\ thr[r].op = "batch_get" /\ Len(thr[r].got) = 2
    /\ thr[r].got[1].status = "ok" /\ thr[r].got[2].status = "notfound"
    /\ thr[w].pc = "done" /\ thr[w].ret = RetBool(TRUE) /\ thr[w].store = thr[r].store
    /\ Len(thr[w].keys) = 2 /\ thr[w].keys[1] # thr[w].keys[2]
    /\ thr[r].got[1].value # OwnValue(w, thr[r].keys[1])

\* C6: no two batch_put calls, from any thread and on any store, hold the same
\* file id, and the ids handed out increase strictly in the order of the
\* increments.
C6_FileIdsUnique ==
  /\ \A i, j \in 1..Len(drawn) : i < j => drawn[i] < drawn[j]
  /\ \A t, u \in Writers :
       (t # u /\ thr[t].file # -1 /\ thr[u].file # -1) => thr[t].file # thr[u].file

\* two writers on two stores, both past the increment and neither finished
C6_Witness ==
  /\ Len(drawn) = 2
  /\ \A t \in Writers : thr[t].pc = "save"
  /\ \E t, u \in Writers : thr[t].store # thr[u].store

\* C7: once the concurrent batch_put calls have all succeeded, with batches that
\* share no key of the same store, they have written pairwise distinct complete
\* blob files, and batch_get over the keys of each batch gives the payloads of
\* that batch (for a key the batch lists twice, the payload of its last
\* position).
C7_DisjointBatchesReadable ==
  (/\ \A w \in Writers : thr[w].pc = "done" /\ thr[w].ret = RetBool(TRUE)
   /\ \A w, u \in Writers :
        (w # u /\ thr[w].store = thr[u].store) =>
           \A k \in Keys : ~(InList(thr[w].keys, k) /\ InList(thr[u].keys, k)))
  => /\ \A w, u \in Writers : w # u => thr[w].file # thr[u].file
     /\ \A w \in Writers :
          /\ files[FileName(thr[w].file)]
               = BlobFile(KvCaches(w, Len(thr[w].keys)))
          /\ ReadBack(thr[w].store, thr[w].keys)
               = [i \in 1..Len(thr[w].keys) |->
                    KvCache(w, LastPos(thr[w].keys, thr[w].keys[i]) - 1)]

\* both writers on one store, each with a batch of its own keys
C7_Witness ==
  /\ \A w \in Writers : /\ thr[w].pc = "done" /\ thr[w].ret = RetBool(TRUE)
                        /\ thr[w].keys # <<>> /\ thr[w].store = "s1"
  /\ \A k \in Keys : ~(InList(thr["w1"].keys, k) /\ InList(thr["w2"].keys, k))
  /\ index["s1"] = [k \in Keys |-> IF InList(thr["w1"].keys, k)
                                   THEN OwnValue("w1", k) ELSE OwnValue("w2", k)]

\* C8: probe(key) that meets no index failure returns false while no write to
\* key has succeeded, true once a put or a batch_put covering key has
\* succeeded, and false again once a delete of key has succeeded.
C8_ProbeFollowsWrites ==
  (last.op = "probe" /\ last.got # <<>> /\ ~IoError(last)) =>
     last.ret = RetBool(written[last.store][last.key] # Absent)

C8_Witness ==
  /\ last.op = "probe" /\ last.ret = RetBool(FALSE)
  /\ written[last.store][last.key] = Absent
  /\ \E f \in FileNames : files[f].state = "complete" /\ files[f].data # <<>>
  /\ \A k \in Keys : written[last.store][k] = Absent

\* C9: probe returns true when the lookup succeeds, false only when the index
\* reports not-found, and raises on any other lookup failure.
C9_ProbeThreeOutcomes ==
  (last.op = "probe" /\ last.got # <<>>) =>
     /\ last.got[1].status = "ok" => last.ret = RetBool(TRUE)
     /\ last.ret = RetBool(FALSE) => last.got[1].status = "notfound"
     /\ last.got[1].status = "ioerror" => last.ret.tag = "raise"

C9_Witness ==
  /\ last.op = "probe" /\ last.got # <<>>
  /\ last.got[1].status = "ioerror" /\ last.ret.tag = "raise"

\* C10 (as stated): a get or batch_get whose index lookup fails with an error
\* other than not-found fails with an error.
C10_IndexFailureIsFatal ==
  (last.op \in {"get", "batch_get"} /\ IoError(last)) => last.ret.tag = "raise"

\* the file of the first call batch_get makes to the blob reader
FirstFileRead(got) == Head(MapOrder(DOMAIN Organised(got).fo))

\* C11: when the blob reader fails for the file of one key of a batch_get, the
\* call still returns a list; every key found in another, readable file has
\* its payload at its position, and the positions of the failed file hold
\* something other than the absent result.
C11_ReaderFailurePerKey ==
  (last.op = "batch_get" /\ last.blob = "fail") =>
     /\ last.ret.tag = "list"
     /\ \A i \in 1..Len(last.keys) :
          last.got[i].status = "ok" =>
             /\ i <= Len(last.ret.l)
             /\ IF DescFile(last.got[i].value) = FirstFileRead(last.got)
                THEN last.ret.l[i] # None
                ELSE last.ret.l[i] = written[last.store][last.keys[i]]

\* C12: on an opened store, batch_put with a number of kv_caches other than
\* the number of keys raises the length error and changes neither the file
\* counter, nor any blob file, nor the index.
C12_ArityMismatchNoEffect ==
  [][(/\ last'.op = "batch_put"
      /\ db[last'.store] = "open"
      /\ last'.nvals # Len(last'.keys))
     => /\ last'.ret = Raise("Keys and kv_caches must have the same length")
        /\ file_counter' = file_counter
        /\ files' = files
        /\ index' = index]_vars

\* the length error, after an earlier batch_put has drawn an id and written
C12_Witness ==
  /\ last.op = "batch_put"
  /\ last.ret = Raise("Keys and kv_caches must have the same length")
  /\ Len(last.keys) = 2 /\ last.nvals = 1
  /\ file_counter = 1
  /\ \E k \in Keys : index[last.store][k] # NotFound

\* C13: every call of put, get, delete_key, probe, batch_put or batch_get on a
\* store that is not opened raises the not-opened error and leaves the index,
\* the blob files, the file counter and the store itself as they were.
C13_NotOpenedNoEffect ==
  [][(/\ last'.op \in {"put", "get", "delete", "probe", "batch_put", "batch_get"}
      /\ db[last'.store] = "null")
     => /\ last'.ret = NotOpened
        /\ UNCHANGED <<db, index, files, file_counter>>]_vars

\* a batch of two keys with two payloads refused by a store that is not opened
C13_Witness ==
  /\ last.op = "batch_put" /\ last.ret = NotOpened
  /\ Len(last.keys) = 2 /\ last.nvals = 2
  /\ db[last.store] = "null"

\* C14: delete_key on an opened store changes no blob file and no index entry
\* but that of its key, which is gone when the call reports success and kept
\* when it reports failure; every other key of the store that batch_put wrote
\* still reads back, through batch_get, the payload stored for it.
C14_DeleteRemovesOnlyItsEntry ==
  [][(last'.op = "delete" /\ db[last'.store] = "open")
     => LET s == last'.store
            k == last'.key
        IN /\ files' = files
           /\ \A o \in Stores, k2 \in Keys :
                (o # s \/ k2 # k) => index'[o][k2] = index[o][k2]
           /\ index'[s][k] = IF last'.ret = RetBool(TRUE) THEN NotFound
                             ELSE index[s][k]
           /\ \A k2 \in Keys \ {k} :
                written[s][k2] \notin {Absent, RawWrite}
                  => ReadBackIn(index'[s], files', <<k2>>) = <<written[s][k2]>>]_vars

\* a key deleted while another key still points at the second slot of a file
\* of two payloads
C14_Witness ==
  /\ last.op = "delete" /\ last.ret = RetBool(TRUE)
  /\ index[last.store][last.key] = NotFound
  /\ \E k2 \in Keys \ {last.key}, f \in FileIds :
       /\ index[last.store][k2] = ValueStr(FileName(f), 1)
       /\ files[FileName(f)] = BlobFile(KvCaches(f, 2))

\* C15: after a successful batch_put the descriptor of every key of the batch
\* names the slot the blob writer reported for the input index of the key (of
\* its last occurrence), whatever slots the writer reported.
C15_StoresReportedSlot ==
  (last.op = "batch_put" /\ last.ret = RetBool(TRUE)) =>
     \A i \in 1..Len(last.keys) :
        index[last.store][last.keys[i]]
          = ValueStr(FileName(last.file),
                     last.meta[LastPos(last.keys, last.keys[i])])

\* C16: in every state, also while batch_put calls are under way in several
\* threads, every index entry names a blob file whose write has completed and
\* a slot that this file has.
C16_DescriptorsPointAtWrittenSlots ==
  \A s \in Stores, k \in Keys :
    index[s][k] # NotFound =>
      LET value_str == index[s][k]
          pipe_pos == find(value_str, "|")
          slot == stoi(substr_from(value_str, pipe_pos + 1))
      IN /\ pipe_pos # npos
         /\ DescFile(value_str) \in FileNames
         /\ files[DescFile(value_str)].state = "complete"
         /\ slot.ok
         /\ slot.val >= 0 /\ slot.val < Len(files[DescFile(value_str)].data)

\* one batch_put has written its two entries while the other, on the same
\* store, has written its blob file and not yet the index
C16_Witness ==
  \E w, u \in Writers :
    /\ thr[w].pc = "done" /\ thr[w].ret = RetBool(TRUE)
    /\ Len(thr[w].keys) = 2 /\ thr[w].keys[1] # thr[w].keys[2]
    /\ thr[u].pc = "write" /\ thr[u].store = thr[w].store
    /\ thr[u].keys # <<>>
    /\ files[FileName(thr[u].file)].state = "complete"

\* the files named by the values a MultiGet found
FilesFound(got) ==
  {DescFile(got[i].value) :
     i \in {j \in 1..Len(got) : got[j].status = "ok"
                                 /\ find(got[j].value, "|") # npos}}

\* C17: a batch_get on an opened store never calls the blob reader twice for
\* one file and only for files named by values it found; a call that runs to
\* its end without a failure has called it once for each of these files, and a
\* call that found no key has not called it.
C17_OneReaderCallPerFile ==
  (last.op = "batch_get" /\ last.ret.tag = "list") =>
     LET calls == BatchGetCalls(last.got, files, last.blob = "fail")
         called == {calls[c] : c \in 1..Len(calls)}
     IN /\ \A c, d \in 1..Len(calls) : calls[c] = calls[d] => c = d
        /\ called \subseteq FilesFound(last.got)
        /\ (last.blob = "ok" /\ Len(last.ret.l) = Len(last.keys))
             => called = FilesFound(last.got)
        /\ (\A i \in 1..Len(last.got) : last.got[i].status # "ok")
             => calls = <<>>

\* two keys of one file and the reader called once
C17_Witness ==
  /\ last.op = "batch_get" /\ last.blob = "ok"
  /\ Len(last.keys) = 2 /\ last.keys[1] # last.keys[2]
  /\ \A i \in 1..2 : last.got[i].status = "ok"
  /\ DescFile(last.got[1].value) = DescFile(last.got[2].value)
  /\ Len(BatchGetCalls(last.got, files, FALSE)) = 1
  /\ Len(last.ret.l) = 2

\* C18: a step changes a blob file only when it is a batch_put writing the
\* file of the id it has drawn; that file did not exist before and no
\* earlier batch_put has drawn the id.  No other call changes a blob file.
C18_FilesWrittenOnce ==
  [][/\ \A fn \in FileNames :
          files'[fn] # files[fn] =>
             /\ last'.op = "batch_put"
             /\ fn = FileName(last'.file)
     /\ (last'.op = "batch_put" /\ last'.file # -1) =>
          /\ files[FileName(last'.file)] = NoFile
          /\ files'[FileName(last'.file)] # NoFile
          /\ \A i \in 1..Len(drawn) : drawn[i] # last'.file]_vars

\* a batch_put whose blob write failed, after one that wrote its file
C18_Witness ==
  /\ last.op = "batch_put" /\ last.file = 1 /\ last.blob = "fail"
  /\ files[FileName(1)] = PartialFile
  /\ files[FileName(0)].state = "complete" /\ files[FileName(0)].data # <<>>

\* C19: in the list a batch_get returns, with one element per key and no
\* failed lookup, position i is the absent result exactly when the index has
\* no entry for keys[i] at the lookup.
C19_AbsentIffNoEntry ==
  (/\ last.op = "batch_get" /\ last.ret.tag = "list"
   /\ Len(last.ret.l) = Len(last.keys)
   /\ ~IoError(last))
  => \A i \in 1..Len(last.keys) :
       (last.ret.l[i] = None) <=> (last.got[i].status = "notfound")

\* C20: after a successful batch_put every key of the batch has the one
\* descriptor of its last position in the batch; after a successful put the
\* key has the value put; and in every state the entry of a key is what its
\* latest successful write left: the descriptor of the latest batch_put, a raw
\* value of the latest put, or nothing after a delete.
C20_LatestWriteWins ==
  /\ (last.op = "batch_put" /\ last.ret = RetBool(TRUE)) =>
        \A i \in 1..Len(last.keys) :
           index[last.store][last.keys[i]]
             = ValueStr(FileName(last.file),
                        LastPos(last.keys, last.keys[i]) - 1)
  /\ (last.op = "put" /\ last.ret = RetBool(TRUE)) =>
        index[last.store][last.key] = last.value
  /\ \A s \in Stores, k \in Keys :
        LET w == written[s][k]
        IN IF w = Absent THEN index[s][k] = NotFound
           ELSE IF w = RawWrite THEN index[s][k] \in RawValues
           ELSE index[s][k] = ValueStr(FileName(w[2]), w[3])

\* the second batch_put lists one key twice, and the key had an entry of the
\* first batch_put
C20_Witness ==
  /\ last.op = "batch_put" /\ last.ret = RetBool(TRUE) /\ last.file = 1
  /\ Len(last.keys) = 2 /\ last.keys[1] = last.keys[2]
  /\ index[last.store][last.keys[1]] = ValueStr(FileName(1), 1)
  /\ files[FileName(0)] = BlobFile(KvCaches(0, 1))
  /\ \A k \in Keys \ {last.keys[1]} : index[last.store][k] = NotFound

====
